---- MODULE Spec2Model ----
(***************************************************************************)
(* simcraft/resources/queue.py: the FIFO Queue and the PriorityQueue with   *)
(* their embedded QueueStats tracker.                                       *)
(*                                                                          *)
(* Every method is an operator from the object it is called on (q, the      *)
(* record of the object's fields), the clock value it reads (t, for         *)
(* self._sim.now) and its arguments to an outcome: the object after the     *)
(* call, the value returned and the callbacks invoked.  The actions apply   *)
(* the methods to the one queue of a behaviour, self.  Simulation time is   *)
(* an integer clock that never goes back.                                   *)
(***************************************************************************)
EXTENDS Integers, Sequences, FiniteSets, TLC

\* ------------------------------------------------------- caller's objects
\* An item is a Python object: id is its identity (the `is` test), val its
\* value (the `==` test).  Objects 1 and 2 are distinct and equal.
Items == { [id |-> 1, val |-> 1], [id |-> 2, val |-> 1], [id |-> 3, val |-> 2] }
NoItem == [id |-> 0, val |-> 0]     \* Python's None where an item is expected
Priorities == { 0, 1 }              \* the priorities the callers use
NoPriority == -1                    \* priority=None: use priority_fn

\* ---------------------------------------------------------------- bounds
MaxTime == 1                  \* the clock runs 0..MaxTime
MaxCap == 2                   \* the capacity at construction: 0 or MaxCap
MaxEnq == Cardinality(Items)  \* successful enqueues per behaviour
MaxSeq == MaxEnq + 1          \* update_priority stops once _counter is this

VARIABLES
  self,          \* the queue object: a Queue or a PriorityQueue
  now,           \* self._sim.now
  admits,        \* history: admits[k] is the clock at the k-th admission
  waitSum,       \* history: sum of (departure - admission) since the reset
  resetLen,      \* history: items held at the last reset_stats (0 if none)
  departed,      \* history: the admissions (tk) that have left the queue
  occ            \* history: the number of items held, summed over the
                 \* time units elapsed since the last reset_stats

vars == << self, now, admits, waitSum, resetLen, departed, occ >>

\* ------------------------------------------------------------ QueueStats
Max(a, b) == IF a >= b THEN a ELSE b

QueueStats == [ entries |-> 0, exits |-> 0, max_length |-> 0,
                total_wait_time |-> 0, area |-> 0,
                last_change_time |-> 0, current_length |-> 0 ]

\* _update_area without `self.last_change_time = time`
update_area_keep_time(s, time) ==
  [ s EXCEPT !.area = @ + s.current_length * (time - s.last_change_time) ]

update_area(s, time) ==
  [ s EXCEPT !.area = @ + s.current_length * (time - s.last_change_time),
             !.last_change_time = time ]

\* record_entry with the update of max_length left out
record_entry_no_max(s, time) ==
  LET u == update_area(s, time)
  IN  [ u EXCEPT !.entries = @ + 1, !.current_length = @ + 1 ]

record_entry(s, time) ==
  LET u == update_area(s, time)
  IN  [ u EXCEPT !.entries = @ + 1,
                 !.current_length = @ + 1,
                 !.max_length = Max(@, u.current_length + 1) ]

\* record_exit with `self.exits += 1` left out
record_exit_no_count(s, time, wait_time) ==
  LET u == update_area(s, time)
  IN  [ u EXCEPT !.current_length = @ - 1,
                 !.total_wait_time = @ + wait_time ]

record_exit(s, time, wait_time) ==
  LET u == update_area(s, time)
  IN  [ u EXCEPT !.exits = @ + 1,
                 !.current_length = @ - 1,
                 !.total_wait_time = @ + wait_time ]

reset(s) ==
  [ s EXCEPT !.entries = 0, !.exits = 0, !.max_length = 0,
             !.total_wait_time = 0, !.area = 0,
             !.last_change_time = 0, !.current_length = 0 ]

\* --------------------------------------------------------------- helpers
\* `entry.item is item or entry.item == item`
Matches(e, item) == e.item.id = item.id \/ e.item.val = item.val

\* s without its i-th element
RemoveAt(s, i) == SubSeq(s, 1, i - 1) \o SubSeq(s, i + 1, Len(s))

\* what a callback called with item can observe of the queue q
Call(hook, item, q) ==
  [ hook |-> hook, item |-> item, length |-> Len(q.entries),
    current_length |-> q.stats.current_length ]

\* ------------------------------------------------------------ class Queue
\* Queue(sim, capacity): the object __init__ leaves
Queue(capacity) ==
  [ kind |-> "fifo", capacity |-> capacity, entries |-> << >>,
    stats |-> QueueStats, on_enqueue |-> FALSE, on_dequeue |-> FALSE ]

\* is_full with > for >=
Queue_is_full_off_by_one(q) ==
  IF q.capacity = 0 THEN FALSE ELSE Len(q.entries) > q.capacity

Queue_is_full(q) ==
  IF q.capacity = 0 THEN FALSE ELSE Len(q.entries) >= q.capacity

\* QueueEntry(item=item, entry_time=now); tk numbers the admission (history)
QueueEntry(item, entry_time, tk) ==
  [ item |-> item, entry_time |-> entry_time, tk |-> tk ]

\* the dataclass __eq__ of QueueEntry: (item, entry_time) == (item, entry_time)
QueueEntry_eq(a, b) ==
  /\ (a.item.id = b.item.id \/ a.item.val = b.item.val)
  /\ a.entry_time = b.entry_time

\* `for entry in self._entries: if entry.item is item or entry.item == item`
\* the index of the first wrapper the scan accepts, 0 when it accepts none
Queue_scan(q, item) ==
  IF \E i \in 1 .. Len(q.entries) : Matches(q.entries[i], item)
  THEN CHOOSE i \in 1 .. Len(q.entries) :
         /\ Matches(q.entries[i], item)
         /\ \A j \in 1 .. (i - 1) : ~Matches(q.entries[j], item)
  ELSE 0

\* deque.remove(entry) drops the first element equal to entry
deque_index(d, entry) ==
  CHOOSE i \in 1 .. Len(d) :
    /\ QueueEntry_eq(d[i], entry)
    /\ \A j \in 1 .. (i - 1) : ~QueueEntry_eq(d[j], entry)

deque_remove(d, entry) == RemoveAt(d, deque_index(d, entry))

\* enqueue invoking the callback between the append and record_entry
Queue_enqueue_callback_first(q, t, item, tk) ==
  IF Queue_is_full(q)
  THEN [ self |-> q, ret |-> FALSE, calls |-> << >> ]
  ELSE LET entry == QueueEntry(item, t, tk)
           q1 == [ q EXCEPT !.entries = Append(@, entry) ]
           q2 == [ q1 EXCEPT !.stats = record_entry(@, t) ]
       IN  [ self |-> q2, ret |-> TRUE,
             calls |-> IF q1.on_enqueue
                       THEN << Call("on_enqueue", item, q1) >>
                       ELSE << >> ]

Queue_enqueue(q, t, item, tk) ==
  IF Queue_is_full(q)
  THEN [ self |-> q, ret |-> FALSE, calls |-> << >> ]
  ELSE LET entry == QueueEntry(item, t, tk)
           q1 == [ q EXCEPT !.entries = Append(@, entry) ]
           q2 == [ q1 EXCEPT !.stats = record_entry(@, t) ]
       IN  [ self |-> q2, ret |-> TRUE,
             calls |-> IF q2.on_enqueue
                       THEN << Call("on_enqueue", item, q2) >>
                       ELSE << >> ]

\* dequeue taking the wrapper at the tail (pop for popleft)
Queue_dequeue_from_tail(q, t) ==
  IF Len(q.entries) = 0
  THEN [ self |-> q, ret |-> NoItem, calls |-> << >>, gone |-> << >> ]
  ELSE LET entry == q.entries[Len(q.entries)]
           q1 == [ q EXCEPT !.entries = SubSeq(@, 1, Len(@) - 1) ]
           wait_time == t - entry.entry_time
           q2 == [ q1 EXCEPT !.stats = record_exit(@, t, wait_time) ]
       IN  [ self |-> q2, ret |-> entry.item,
             calls |-> IF q2.on_dequeue
                       THEN << Call("on_dequeue", entry.item, q2) >>
                       ELSE << >>,
             gone |-> << entry >> ]

\* gone: the wrapper that left the deque, if any (history)
Queue_dequeue(q, t) ==
  IF Len(q.entries) = 0
  THEN [ self |-> q, ret |-> NoItem, calls |-> << >>, gone |-> << >> ]
  ELSE LET entry == Head(q.entries)
           q1 == [ q EXCEPT !.entries = Tail(@) ]
           wait_time == t - entry.entry_time
           q2 == [ q1 EXCEPT !.stats = record_exit(@, t, wait_time) ]
       IN  [ self |-> q2, ret |-> entry.item,
             calls |-> IF q2.on_dequeue
                       THEN << Call("on_dequeue", entry.item, q2) >>
                       ELSE << >>,
             gone |-> << entry >> ]

\* peek reading the tail of the deque ([-1] for [0])
Queue_peek_tail(q) ==
  IF Len(q.entries) = 0 THEN NoItem ELSE q.entries[Len(q.entries)].item

Queue_peek(q) ==
  IF Len(q.entries) = 0 THEN NoItem ELSE q.entries[1].item

\* remove taking the wait of the head instead of the wrapper it found
Queue_remove_head_wait(q, t, item) ==
  LET i == Queue_scan(q, item)
  IN  IF i = 0
      THEN [ self |-> q, ret |-> FALSE, gone |-> << >> ]
      ELSE LET entry == q.entries[i]
               q1 == [ q EXCEPT !.entries = deque_remove(@, entry) ]
               wait_time == t - Head(q.entries).entry_time
               q2 == [ q1 EXCEPT !.stats = record_exit(@, t, wait_time) ]
           IN  [ self |-> q2, ret |-> TRUE,
                 gone |-> << q.entries[deque_index(q.entries, entry)] >> ]

Queue_remove(q, t, item) ==
  LET i == Queue_scan(q, item)
  IN  IF i = 0
      THEN [ self |-> q, ret |-> FALSE, gone |-> << >> ]
      ELSE LET entry == q.entries[i]
               q1 == [ q EXCEPT !.entries = deque_remove(@, entry) ]
               wait_time == t - entry.entry_time
               q2 == [ q1 EXCEPT !.stats = record_exit(@, t, wait_time) ]
           IN  [ self |-> q2, ret |-> TRUE,
                 gone |-> << q.entries[deque_index(q.entries, entry)] >> ]

\* `items = list(self._items)`: a Queue has no attribute _items (its deque
\* is _entries), so the call raises AttributeError before anything changes
\* and returns nothing.
Queue_clear(q, t) ==
  [ self |-> q, raised |-> "AttributeError", ret |-> << >> ]

Queue_on_enqueue(q) == [ q EXCEPT !.on_enqueue = TRUE ]

Queue_on_dequeue(q) == [ q EXCEPT !.on_dequeue = TRUE ]

\* reset_stats without the re-synchronisation of _current_length
Queue_reset_stats_no_sync(q) == [ q EXCEPT !.stats = reset(@) ]

Queue_reset_stats(q) ==
  LET q1 == [ q EXCEPT !.stats = reset(@) ]
  IN  [ q1 EXCEPT !.stats.current_length = Len(q1.entries) ]

\* ------------------------------------------------------------ PriorityItem
\* tk numbers the admission of the item the wrapper carries (history)
PriorityItem(priority, index, item, entry_time, tk) ==
  [ priority |-> priority, index |-> index, item |-> item,
    entry_time |-> entry_time, tk |-> tk ]

\* the order with index left out of the comparison
PriorityItem_lt_priority_only(a, b) == a.priority < b.priority

\* dataclass(order=True): __lt__ compares (priority, index)
PriorityItem_lt(a, b) ==
  \/ a.priority < b.priority
  \/ a.priority = b.priority /\ a.index < b.index

\* the dataclass __eq__: (priority, index) == (priority, index)
PriorityItem_eq(a, b) == a.priority = b.priority /\ a.index = b.index

\* ------------------------------------------------------------------ heapq
\* Positions are Python's, from 0: position p is element p + 1 of the sequence.
RECURSIVE siftdown_loop(_, _, _, _)
siftdown_loop(h, startpos, pos, newitem) ==
  IF pos > startpos
  THEN LET parentpos == (pos - 1) \div 2
           parent == h[parentpos + 1]
       IN  IF PriorityItem_lt(newitem, parent)
           THEN siftdown_loop([h EXCEPT ![pos + 1] = parent], startpos,
                              parentpos, newitem)
           ELSE [h EXCEPT ![pos + 1] = newitem]
  ELSE [h EXCEPT ![pos + 1] = newitem]

siftdown(h, startpos, pos) == siftdown_loop(h, startpos, pos, h[pos + 1])

RECURSIVE siftup_loop(_, _, _, _)
siftup_loop(h, startpos, pos, newitem) ==
  LET endpos == Len(h)
      childpos == 2 * pos + 1
      rightpos == childpos + 1
      smaller == IF rightpos < endpos
                    /\ ~PriorityItem_lt(h[childpos + 1], h[rightpos + 1])
                 THEN rightpos
                 ELSE childpos
  IN  IF childpos < endpos
      THEN siftup_loop([h EXCEPT ![pos + 1] = h[smaller + 1]], startpos,
                       smaller, newitem)
      ELSE siftdown([h EXCEPT ![pos + 1] = newitem], startpos, pos)

siftup(h, pos) == siftup_loop(h, pos, pos, h[pos + 1])

heappush(h, item) == siftdown(Append(h, item), 0, Len(h))

\* heappop: the popped element and the list it leaves
heappop(h) ==
  LET lastelt == h[Len(h)]
      rest == SubSeq(h, 1, Len(h) - 1)
  IN  IF Len(rest) > 0
      THEN [ item |-> h[1], heap |-> siftup([rest EXCEPT ![1] = lastelt], 0) ]
      ELSE [ item |-> lastelt, heap |-> rest ]

\* heapify: `for i in reversed(range(n // 2)): _siftup(x, i)`, from i down to 0
RECURSIVE heapify_from(_, _)
heapify_from(x, i) ==
  IF i < 0 THEN x ELSE heapify_from(siftup(x, i), i - 1)

heapify(x) == heapify_from(x, (Len(x) \div 2) - 1)

\* list.remove(entry) drops the first element equal to entry
list_index(l, entry) ==
  CHOOSE i \in 1 .. Len(l) :
    /\ PriorityItem_eq(l[i], entry)
    /\ \A j \in 1 .. (i - 1) : ~PriorityItem_eq(l[j], entry)

list_remove(l, entry) == RemoveAt(l, list_index(l, entry))

\* ---------------------------------------------------- class PriorityQueue
\* PriorityQueue(sim, capacity=capacity): the object __init__ leaves
PriorityQueue(capacity) ==
  [ kind |-> "pq", capacity |-> capacity, heap |-> << >>, counter |-> 0,
    stats |-> QueueStats ]

\* the default priority_fn, `lambda x: 0.0`
priority_fn(item) == 0

PriorityQueue_is_full(q) ==
  IF q.capacity = 0 THEN FALSE ELSE Len(q.heap) >= q.capacity

\* the index in the list of the first wrapper matching item, 0 for None
find_entry(q, item) ==
  IF \E i \in 1 .. Len(q.heap) : Matches(q.heap[i], item)
  THEN CHOOSE i \in 1 .. Len(q.heap) :
         /\ Matches(q.heap[i], item)
         /\ \A j \in 1 .. (i - 1) : ~Matches(q.heap[j], item)
  ELSE 0

\* enqueue without `self._counter += 1`
PriorityQueue_enqueue_no_count(q, t, item, priority, tk) ==
  IF PriorityQueue_is_full(q)
  THEN [ self |-> q, ret |-> FALSE ]
  ELSE LET p == IF priority = NoPriority THEN priority_fn(item)
                ELSE priority
           entry == PriorityItem(p, q.counter, item, t, tk)
           q2 == [ q EXCEPT !.heap = heappush(@, entry) ]
           q3 == [ q2 EXCEPT !.stats = record_entry(@, t) ]
       IN  [ self |-> q3, ret |-> TRUE ]

PriorityQueue_enqueue(q, t, item, priority, tk) ==
  IF PriorityQueue_is_full(q)
  THEN [ self |-> q, ret |-> FALSE ]
  ELSE LET p == IF priority = NoPriority THEN priority_fn(item)
                ELSE priority
           q1 == [ q EXCEPT !.counter = @ + 1 ]
           entry == PriorityItem(p, q1.counter, item, t, tk)
           q2 == [ q1 EXCEPT !.heap = heappush(@, entry) ]
           q3 == [ q2 EXCEPT !.stats = record_entry(@, t) ]
       IN  [ self |-> q3, ret |-> TRUE ]

\* dequeue bringing the statistics up to the clock before it tests for
\* emptiness
PriorityQueue_dequeue_touch_empty(q, t) ==
  IF Len(q.heap) = 0
  THEN [ self |-> [ q EXCEPT !.stats = update_area(@, t) ],
         ret |-> NoItem, gone |-> << >> ]
  ELSE LET popped == heappop(q.heap)
           entry == popped.item
           q1 == [ q EXCEPT !.heap = popped.heap ]
           wait_time == t - entry.entry_time
           q2 == [ q1 EXCEPT !.stats = record_exit(@, t, wait_time) ]
       IN  [ self |-> q2, ret |-> entry.item, gone |-> << entry >> ]

\* gone: the wrapper that left the heap, if any (history)
PriorityQueue_dequeue(q, t) ==
  IF Len(q.heap) = 0
  THEN [ self |-> q, ret |-> NoItem, gone |-> << >> ]
  ELSE LET popped == heappop(q.heap)
           entry == popped.item
           q1 == [ q EXCEPT !.heap = popped.heap ]
           wait_time == t - entry.entry_time
           q2 == [ q1 EXCEPT !.stats = record_exit(@, t, wait_time) ]
       IN  [ self |-> q2, ret |-> entry.item, gone |-> << entry >> ]

PriorityQueue_peek(q) ==
  IF Len(q.heap) = 0 THEN NoItem ELSE q.heap[1].item

PriorityQueue_remove(q, t, item) ==
  LET i == find_entry(q, item)
  IN  IF i = 0
      THEN [ self |-> q, ret |-> FALSE, gone |-> << >> ]
      ELSE LET entry == q.heap[i]
               q1 == [ q EXCEPT !.heap = list_remove(@, entry) ]
               q2 == [ q1 EXCEPT !.heap = heapify(@) ]
               wait_time == t - entry.entry_time
               q3 == [ q2 EXCEPT !.stats = record_exit(@, t, wait_time) ]
           IN  [ self |-> q3, ret |-> TRUE,
                 gone |-> << q.heap[list_index(q.heap, entry)] >> ]

\* update_priority taking the next sequence number before it looks for the
\* item
PriorityQueue_update_priority_count_first(q, item, new_priority) ==
  LET i == find_entry(q, item)
      q0 == [ q EXCEPT !.counter = @ + 1 ]
  IN  IF i = 0
      THEN [ self |-> q0, ret |-> FALSE ]
      ELSE LET entry == q.heap[i]
               q1 == [ q0 EXCEPT !.heap = list_remove(@, entry) ]
               new_entry == PriorityItem(new_priority, q1.counter, item,
                                         entry.entry_time, entry.tk)
               q3 == [ q1 EXCEPT !.heap = heappush(@, new_entry) ]
           IN  [ self |-> q3, ret |-> TRUE ]

\* update_priority building the wrapper without entry_time (its default, 0.0)
PriorityQueue_update_priority_new_time(q, item, new_priority) ==
  LET i == find_entry(q, item)
  IN  IF i = 0
      THEN [ self |-> q, ret |-> FALSE ]
      ELSE LET entry == q.heap[i]
               q1 == [ q EXCEPT !.heap = list_remove(@, entry) ]
               q2 == [ q1 EXCEPT !.counter = @ + 1 ]
               new_entry == PriorityItem(new_priority, q2.counter, item,
                                         0, entry.tk)
               q3 == [ q2 EXCEPT !.heap = heappush(@, new_entry) ]
           IN  [ self |-> q3, ret |-> TRUE ]

PriorityQueue_update_priority(q, item, new_priority) ==
  LET i == find_entry(q, item)
  IN  IF i = 0
      THEN [ self |-> q, ret |-> FALSE ]
      ELSE LET entry == q.heap[i]
               q1 == [ q EXCEPT !.heap = list_remove(@, entry) ]
               q2 == [ q1 EXCEPT !.counter = @ + 1 ]
               new_entry == PriorityItem(new_priority, q2.counter, item,
                                         entry.entry_time, entry.tk)
               q3 == [ q2 EXCEPT !.heap = heappush(@, new_entry) ]
           IN  [ self |-> q3, ret |-> TRUE ]

\* ---------------------------------------------------------------- actions
\* the wait of the wrappers in gone, from their admission to the clock t
Waited(gone, t) ==
  IF gone = << >> THEN 0 ELSE t - admits[gone[1].tk]

\* the admissions of the wrappers in gone
Left(gone) == { gone[i].tk : i \in 1 .. Len(gone) }

\* the simulation's clock moves on (the queues only read it)
Tick ==
  /\ now < MaxTime
  /\ now' = now + 1
  /\ occ' = occ + (IF self.kind = "fifo" THEN Len(self.entries)
                                          ELSE Len(self.heap))
  /\ UNCHANGED << self, admits, waitSum, resetLen, departed >>

CallQueue_enqueue(item) ==
  /\ self.kind = "fifo"
  /\ LET r == Queue_enqueue(self, now, item, Len(admits) + 1)
     IN  /\ r.ret => Len(admits) < MaxEnq
         /\ self' = r.self
         /\ admits' = IF r.ret THEN Append(admits, now) ELSE admits
  /\ UNCHANGED << now, waitSum, resetLen, departed, occ >>

CallQueue_dequeue ==
  /\ self.kind = "fifo"
  /\ LET r == Queue_dequeue(self, now)
     IN  /\ self' = r.self
         /\ waitSum' = waitSum + Waited(r.gone, now)
         /\ departed' = departed \cup Left(r.gone)
  /\ UNCHANGED << now, admits, resetLen, occ >>

\* peek returns a value and assigns nothing
CallQueue_peek ==
  /\ self.kind = "fifo"
  /\ Queue_peek(self) \in Items \cup { NoItem }
  /\ UNCHANGED vars

CallQueue_remove(item) ==
  /\ self.kind = "fifo"
  /\ LET r == Queue_remove(self, now, item)
     IN  /\ self' = r.self
         /\ waitSum' = waitSum + Waited(r.gone, now)
         /\ departed' = departed \cup Left(r.gone)
  /\ UNCHANGED << now, admits, resetLen, occ >>

CallQueue_clear ==
  /\ self.kind = "fifo"
  /\ self' = Queue_clear(self, now).self
  /\ UNCHANGED << now, admits, waitSum, resetLen, departed, occ >>

CallQueue_on_enqueue ==
  /\ self.kind = "fifo"
  /\ self' = Queue_on_enqueue(self)
  /\ UNCHANGED << now, admits, waitSum, resetLen, departed, occ >>

CallQueue_on_dequeue ==
  /\ self.kind = "fifo"
  /\ self' = Queue_on_dequeue(self)
  /\ UNCHANGED << now, admits, waitSum, resetLen, departed, occ >>

CallQueue_reset_stats ==
  /\ self.kind = "fifo"
  /\ self' = Queue_reset_stats(self)
  /\ resetLen' = Len(self.entries)
  /\ waitSum' = 0
  /\ occ' = 0
  /\ UNCHANGED << now, admits, departed >>

CallPriorityQueue_enqueue(item, priority) ==
  /\ self.kind = "pq"
  /\ LET r == PriorityQueue_enqueue(self, now, item, priority,
                                    Len(admits) + 1)
     IN  /\ r.ret => Len(admits) < MaxEnq
         /\ self' = r.self
         /\ admits' = IF r.ret THEN Append(admits, now) ELSE admits
  /\ UNCHANGED << now, waitSum, resetLen, departed, occ >>

CallPriorityQueue_dequeue ==
  /\ self.kind = "pq"
  /\ LET r == PriorityQueue_dequeue(self, now)
     IN  /\ self' = r.self
         /\ waitSum' = waitSum + Waited(r.gone, now)
         /\ departed' = departed \cup Left(r.gone)
  /\ UNCHANGED << now, admits, resetLen, occ >>

CallPriorityQueue_peek ==
  /\ self.kind = "pq"
  /\ PriorityQueue_peek(self) \in Items \cup { NoItem }
  /\ UNCHANGED vars

CallPriorityQueue_remove(item) ==
  /\ self.kind = "pq"
  /\ LET r == PriorityQueue_remove(self, now, item)
     IN  /\ self' = r.self
         /\ waitSum' = waitSum + Waited(r.gone, now)
         /\ departed' = departed \cup Left(r.gone)
  /\ UNCHANGED << now, admits, resetLen, occ >>

CallPriorityQueue_update_priority(item, new_priority) ==
  /\ self.kind = "pq"
  /\ LET r == PriorityQueue_update_priority(self, item, new_priority)
     IN  /\ r.ret => self.counter < MaxSeq
         /\ self' = r.self
  /\ UNCHANGED << now, admits, waitSum, resetLen, departed, occ >>

\* ---------------------------------------------------------- specification
Init ==
  /\ self \in { Queue(0), Queue(MaxCap),
                PriorityQueue(0), PriorityQueue(MaxCap) }
  /\ now = 0
  /\ admits = << >>
  /\ waitSum = 0
  /\ resetLen = 0
  /\ departed = { }
  /\ occ = 0

Next ==
  \/ Tick
  \/ \E item \in Items : CallQueue_enqueue(item)
  \/ CallQueue_dequeue
  \/ CallQueue_peek
  \/ \E item \in Items : CallQueue_remove(item)
  \/ CallQueue_clear
  \/ CallQueue_on_enqueue
  \/ CallQueue_on_dequeue
  \/ CallQueue_reset_stats
  \/ \E item \in Items, priority \in Priorities \cup { NoPriority } :
       CallPriorityQueue_enqueue(item, priority)
  \/ CallPriorityQueue_dequeue
  \/ CallPriorityQueue_peek
  \/ \E item \in Items : CallPriorityQueue_remove(item)
  \/ \E item \in Items, new_priority \in Priorities :
       CallPriorityQueue_update_priority(item, new_priority)

Spec == Init /\ [][Next]_vars

\* the priority queue used with enqueue, dequeue and remove only
InitPriorityQueue == Init /\ self.kind = "pq"

NextNoUpdate ==
  \/ Tick
  \/ \E item \in Items, priority \in Priorities \cup { NoPriority } :
       CallPriorityQueue_enqueue(item, priority)
  \/ CallPriorityQueue_dequeue
  \/ CallPriorityQueue_peek
  \/ \E item \in Items : CallPriorityQueue_remove(item)

SpecNoUpdate == InitPriorityQueue /\ [][NextNoUpdate]_vars

\* the queues used without reset_stats
NextNoReset ==
  \/ Tick
  \/ \E item \in Items : CallQueue_enqueue(item)
  \/ CallQueue_dequeue
  \/ CallQueue_peek
  \/ \E item \in Items : CallQueue_remove(item)
  \/ CallQueue_clear
  \/ CallQueue_on_enqueue
  \/ CallQueue_on_dequeue
  \/ \E item \in Items, priority \in Priorities \cup { NoPriority } :
       CallPriorityQueue_enqueue(item, priority)
  \/ CallPriorityQueue_dequeue
  \/ CallPriorityQueue_peek
  \/ \E item \in Items : CallPriorityQueue_remove(item)
  \/ \E item \in Items, new_priority \in Priorities :
       CallPriorityQueue_update_priority(item, new_priority)

SpecNoReset == Init /\ [][NextNoReset]_vars

\* ------------------------------------------------------------ properties
Range(s) == { s[i] : i \in 1 .. Len(s) }

\* __len__: the number of wrappers the queue holds
Size(q) == IF q.kind = "fifo" THEN Len(q.entries) ELSE Len(q.heap)

\* the wrappers the queue holds, in the order of its container
Wrappers(q) == IF q.kind = "fifo" THEN q.entries ELSE q.heap

\* w is a least wrapper of the list h by (priority, index)
IsMinimum(w, h) ==
  w \in Range(h) /\ \A v \in Range(h) : ~PriorityItem_lt(v, w)

\* C1: dequeue on a non-empty priority queue removes and returns the item
\* whose wrapper is the minimum by (priority, sequence) of those queued,
\* whatever enqueue, dequeue, remove and update_priority calls came before.
C1_DequeueReturnsMinimum ==
  (self.kind = "pq" /\ Len(self.heap) > 0) =>
    LET r == PriorityQueue_dequeue(self, now)
    IN  \E w \in Range(self.heap) :
          /\ IsMinimum(w, self.heap)
          /\ r.ret = w.item
          /\ r.gone = << w >>
          /\ Range(r.self.heap) = Range(self.heap) \ { w }

\* C2: clear() on a FIFO queue holding n > 0 items does not raise, returns
\* the n items from head to tail, leaves the queue empty and records one
\* exit per item (exits grows by n, current_length becomes 0).
C2_ClearReturnsAll ==
  (self.kind = "fifo" /\ Len(self.entries) > 0) =>
    LET r == Queue_clear(self, now)
    IN  /\ r.raised = "no"
        /\ r.ret = [ i \in 1 .. Len(self.entries) |-> self.entries[i].item ]
        /\ Len(r.self.entries) = 0
        /\ r.self.stats.exits = self.stats.exits + Len(self.entries)
        /\ r.self.stats.current_length = 0

\* C3 as stated: in every reachable state of either queue,
\* current_length = entries - exits.
C3_LengthIsEntriesMinusExits ==
  self.stats.current_length = self.stats.entries - self.stats.exits

\* C3 amended: current_length = entries - exits + k, k being the number of
\* items the queue held at its last reset_stats (0 when there was none).
C3_LengthIsEntriesMinusExitsSinceReset ==
  self.stats.current_length
    = self.stats.entries - self.stats.exits + resetLen

\* a queue whose statistics were reset while it held items, and which an
\* item has left since
C3_Witness ==
  resetLen > 0 /\ self.stats.exits > 0 /\ self.stats.entries > 0

\* C4: in every reachable state of either queue, current_length is the
\* number of wrappers the queue holds.
C4_LengthIsSize == self.stats.current_length = Size(self)

\* a FIFO queue reset while it held items, still holding some after an exit
C4_Witness ==
  /\ self.kind = "fifo"
  /\ resetLen > 0
  /\ self.stats.exits > 0
  /\ Len(self.entries) > 0

\* C5: a queue built with capacity c > 0 never holds more than c items, and
\* enqueue on a queue holding c items returns False, leaves the whole object
\* as it was (contents, every statistic, the sequence counter) and invokes no
\* callback.
C5_CapacityRespected ==
  self.capacity > 0 =>
    /\ Size(self) <= self.capacity
    /\ Size(self) = self.capacity =>
         \A item \in Items :
           IF self.kind = "fifo"
           THEN LET r == Queue_enqueue(self, now, item, Len(admits) + 1)
                IN  r.ret = FALSE /\ r.self = self /\ r.calls = << >>
           ELSE \A priority \in Priorities \cup { NoPriority } :
                  LET r == PriorityQueue_enqueue(self, now, item, priority,
                                                 Len(admits) + 1)
                  IN  r.ret = FALSE /\ r.self = self

\* a full bounded FIFO queue with an enqueue callback set, at a later time
\* than its last change
C5_Witness ==
  /\ self.kind = "fifo"
  /\ self.capacity > 0
  /\ Len(self.entries) = self.capacity
  /\ self.on_enqueue
  /\ now > self.stats.last_change_time

\* C6: when two distinct objects of equal value are both queued, remove(x)
\* with x the later-queued one removes a wrapper that holds x itself and
\* leaves the other object's wrapper queued.
C6_RemoveByIdentityFirst ==
  \A i, j \in 1 .. Size(self) :
    LET x == Wrappers(self)[j]
        y == Wrappers(self)[i]
        r == IF self.kind = "fifo"
             THEN Queue_remove(self, now, x.item)
             ELSE PriorityQueue_remove(self, now, x.item)
    IN  ( /\ y.tk < x.tk
          /\ y.item.id # x.item.id
          /\ y.item.val = x.item.val )
        => /\ r.ret = TRUE
           /\ r.gone[1].item.id = x.item.id
           /\ y \in Range(Wrappers(r.self))

\* C7 as stated: max_length never decreases, reset_stats included, and is
\* never below current_length.
C7_MaxLengthMonotone ==
  [][ /\ self'.stats.max_length >= self.stats.max_length
      /\ self'.stats.max_length >= self'.stats.current_length ]_vars

\* C7 amended: max_length never decreases across an operation other than
\* reset_stats, and max_length >= current_length - k, k being the number of
\* items held at the last reset_stats (0 when there was none).
C7_MaxLengthMonotoneBetweenResets ==
  [][ /\ self'.stats.max_length >= self.stats.max_length
         \/ CallQueue_reset_stats
      /\ self'.stats.max_length >= self'.stats.current_length - resetLen'
      /\ self'.stats.entries > 0 =>
           self'.stats.max_length >= self'.stats.current_length ]_vars

\* a queue reset while it held items: max_length is below current_length
C7_Witness ==
  /\ resetLen > 0
  /\ self.stats.max_length < self.stats.current_length
  /\ self.stats.exits > 0

\* the departure recorded in the outcome r of a dequeue or a remove at the
\* clock t adds t minus the admission time of the wrapper that left to
\* total_wait_time and 1 to exits
DepartureRecorded(q, r, t) ==
  r.gone # << >> =>
    /\ r.self.stats.total_wait_time
         = q.stats.total_wait_time + (t - admits[r.gone[1].tk])
    /\ r.self.stats.exits = q.stats.exits + 1

\* C8: every departure by dequeue or remove, at t1, of an item admitted at
\* t0 adds t1 - t0 to total_wait_time and 1 to exits; total_wait_time is the
\* sum of (departure - admission) over the departures since the last reset.
C8_WaitTimeLaw ==
  /\ self.stats.total_wait_time = waitSum
  /\ IF self.kind = "fifo"
     THEN /\ DepartureRecorded(self, Queue_dequeue(self, now), now)
          /\ \A item \in Items :
               DepartureRecorded(self, Queue_remove(self, now, item), now)
     ELSE /\ DepartureRecorded(self, PriorityQueue_dequeue(self, now), now)
          /\ \A item \in Items :
               DepartureRecorded(self, PriorityQueue_remove(self, now, item),
                                 now)

\* a priority queue that waits have been recorded on, still holding a
\* wrapper admitted before now whose priority was changed
C8_Witness ==
  /\ self.kind = "pq"
  /\ self.stats.total_wait_time > 0
  /\ self.stats.exits >= 2
  /\ \E w \in Range(self.heap) : w.tk < w.index /\ admits[w.tk] < now

\* the queued admissions with the entry time their wrappers carry
EntryTimes(q) == { << w.tk, w.entry_time >> : w \in Range(q.heap) }

\* C9: a successful update_priority leaves the length and every statistic
\* as they were and keeps each queued item's entry time, so every wrapper
\* carries its item's admission time and a later departure at t1 records
\* t1 minus that time.
C9_UpdatePriorityKeepsStats ==
  self.kind = "pq" =>
    /\ \A w \in Range(self.heap) : w.entry_time = admits[w.tk]
    /\ \A item \in Items, new_priority \in Priorities :
         LET r == PriorityQueue_update_priority(self, item, new_priority)
         IN  r.ret =>
               /\ r.self.stats = self.stats
               /\ Len(r.self.heap) = Len(self.heap)
               /\ EntryTimes(r.self) = EntryTimes(self)
               /\ DepartureRecorded(r.self,
                                    PriorityQueue_dequeue(r.self, now), now)

\* a priority queue holding a wrapper made by update_priority for an item
\* admitted before now
C9_Witness ==
  /\ self.kind = "pq"
  /\ self.counter > Len(admits)
  /\ \E w \in Range(self.heap) :
       w.index = self.counter /\ w.tk < Len(admits) /\ w.entry_time < now

\* the wrapper d2 is dequeued right after d1: not before it in priority,
\* and after it in enqueue order when the priorities are equal
InOrder(d1, d2) ==
  /\ d1.priority <= d2.priority
  /\ d1.priority = d2.priority => d1.tk < d2.tk

\* C10: without update_priority, successive dequeues return items in
\* non-decreasing priority and, among equal priorities, in enqueue order:
\* also with a remove between the two, and for equal priorities with an
\* enqueue between the two.
C10_DequeueOrder ==
  LET r1 == PriorityQueue_dequeue(self, now)
      r2 == PriorityQueue_dequeue(r1.self, now)
  IN  r1.gone # << >> =>
        /\ r2.gone # << >> => InOrder(r1.gone[1], r2.gone[1])
        /\ \A item \in Items :
             LET r3 == PriorityQueue_dequeue(
                         PriorityQueue_remove(r1.self, now, item).self, now)
             IN  r3.gone # << >> => InOrder(r1.gone[1], r3.gone[1])
        /\ \A item \in Items, priority \in Priorities :
             LET r4 == PriorityQueue_dequeue(
                         PriorityQueue_enqueue(r1.self, now, item, priority,
                                               Len(admits) + 1).self, now)
             IN  r4.gone[1].priority = r1.gone[1].priority =>
                   r1.gone[1].tk < r4.gone[1].tk

\* a priority queue a dequeue has already served, holding two wrappers of
\* which the later enqueued is the more urgent one: the next two dequeues
\* return them against their enqueue order
C10_Witness ==
  /\ self.kind = "pq"
  /\ Len(self.heap) = 2
  /\ self.stats.exits > 0
  /\ self.heap[1].tk > self.heap[2].tk
  /\ self.heap[1].priority < self.heap[2].priority

\* the admissions the queue holds
Queued(q) == { w.tk : w \in Range(Wrappers(q)) }

\* C11: the FIFO queue holds exactly the admitted and not yet departed
\* items, in admission order; dequeue takes the earliest admitted of them,
\* remove takes one wrapper and leaves the others in their order, enqueue
\* puts the new item behind all of them.
C11_AdmissionOrder ==
  self.kind = "fifo" =>
    /\ \A i, j \in 1 .. Len(self.entries) :
         i < j => self.entries[i].tk < self.entries[j].tk
    /\ Queued(self) = (1 .. Len(admits)) \ departed
    /\ LET r == Queue_dequeue(self, now)
       IN  Len(self.entries) > 0 =>
             /\ Len(r.gone) = 1
             /\ r.gone[1] \in Range(self.entries)
             /\ \A k \in Queued(self) : r.gone[1].tk <= k
             /\ r.ret = r.gone[1].item
             /\ Queued(r.self) = Queued(self) \ { r.gone[1].tk }
    /\ \A item \in Items :
         LET r == Queue_remove(self, now, item)
         IN  r.ret =>
               /\ Len(r.gone) = 1
               /\ r.gone[1] \in Range(self.entries)
               /\ Range(r.self.entries) = Range(self.entries) \ { r.gone[1] }
               /\ \A i, j \in 1 .. Len(r.self.entries) :
                    i < j => r.self.entries[i].tk < r.self.entries[j].tk
    /\ \A item \in Items :
         LET r == Queue_enqueue(self, now, item, Len(admits) + 1)
         IN  r.ret =>
               /\ Len(r.self.entries) = Len(self.entries) + 1
               /\ SubSeq(r.self.entries, 1, Len(self.entries)) = self.entries
               /\ r.self.entries[Len(r.self.entries)].item = item

\* a FIFO queue holding an item admitted before and an item admitted after
\* one that has left
C11_Witness ==
  /\ self.kind = "fifo"
  /\ \E d \in departed, i, j \in 1 .. Len(self.entries) :
       self.entries[i].tk < d /\ d < self.entries[j].tk

\* the statistics after each enqueue, dequeue and remove the queue q admits
\* at the clock t
AfterEvent(q, t) ==
  IF q.kind = "fifo"
  THEN { Queue_enqueue(q, t, item, Len(admits) + 1).self.stats :
           item \in Items }
       \cup { Queue_dequeue(q, t).self.stats }
       \cup { Queue_remove(q, t, item).self.stats : item \in Items }
  ELSE { PriorityQueue_enqueue(q, t, item, priority,
                               Len(admits) + 1).self.stats :
           item \in Items, priority \in Priorities }
       \cup { PriorityQueue_dequeue(q, t).self.stats }
       \cup { PriorityQueue_remove(q, t, item).self.stats : item \in Items }

\* C12: without reset_stats, area is the number of items held summed over
\* the time elapsed up to the last entry or exit (the sum up to now less
\* what the items held since then add to it), and an entry or exit at the
\* time of the one before leaves area as it was.
C12_AreaIsOccupancyIntegral ==
  /\ self.stats.last_change_time <= now
  /\ self.stats.area
       = occ - Size(self) * (now - self.stats.last_change_time)
  /\ now = self.stats.last_change_time =>
       \A s \in AfterEvent(self, now) : s.area = self.stats.area

\* a queue that held two items over a time unit, one of which has left
C12_Witness ==
  /\ self.stats.area >= 2
  /\ self.stats.exits > 0
  /\ Size(self) > 0
  /\ now = self.stats.last_change_time

\* no wrapper of the queue q holds item or an object equal to it
NotQueued(q, item) == \A w \in Range(Wrappers(q)) : ~Matches(w, item)

\* C13: update_priority(item, p) with no queued item matching item by
\* identity or equality returns False and leaves the whole object as it
\* was: the heap list, the sequence counter and every statistic.
C13_UpdatePriorityNotFound ==
  self.kind = "pq" =>
    \A item \in Items, new_priority \in Priorities :
      LET r == PriorityQueue_update_priority(self, item, new_priority)
      IN  /\ NotQueued(self, item) <=> r.ret = FALSE
          /\ NotQueued(self, item) => r.self = self

\* a priority queue holding items, none matching some item the caller may
\* name, after departures at a later time than 0
C13_Witness ==
  /\ self.kind = "pq"
  /\ Len(self.heap) > 0
  /\ \E item \in Items : NotQueued(self, item)
  /\ self.stats.exits > 0
  /\ self.stats.area > 0

\* C14: on either queue, dequeue and peek on an empty queue return the
\* no-item result and remove of an item no wrapper matches returns False;
\* each leaves the whole object as it was (contents and every statistic,
\* area and last_change_time included) and invokes no callback.
C14_NothingToTake ==
  IF self.kind = "fifo"
  THEN /\ Len(self.entries) = 0 =>
            LET r == Queue_dequeue(self, now)
            IN  /\ r.ret = NoItem /\ r.self = self /\ r.calls = << >>
                /\ Queue_peek(self) = NoItem
       /\ \A item \in Items :
            NotQueued(self, item) =>
              LET r == Queue_remove(self, now, item)
              IN  r.ret = FALSE /\ r.self = self
  ELSE /\ Len(self.heap) = 0 =>
            LET r == PriorityQueue_dequeue(self, now)
            IN  /\ r.ret = NoItem /\ r.self = self
                /\ PriorityQueue_peek(self) = NoItem
       /\ \A item \in Items :
            NotQueued(self, item) =>
              LET r == PriorityQueue_remove(self, now, item)
              IN  r.ret = FALSE /\ r.self = self

\* a queue that items have passed through, empty at a later time than its
\* last change
C14_Witness ==
  /\ Size(self) = 0
  /\ self.stats.exits > 0
  /\ now > self.stats.last_change_time

\* calls is one invocation of the callback hook with item, made when the
\* queue already was as the operation leaves it (q): the content changed
\* and the statistics updated
InvokedOnce(calls, hook, item, q) ==
  /\ Len(calls) = 1
  /\ calls[1].hook = hook
  /\ calls[1].item = item
  /\ calls[1].length = Len(q.entries)
  /\ calls[1].current_length = q.stats.current_length
  /\ calls[1].current_length = calls[1].length

\* C15: on the FIFO queue a registered enqueue callback is invoked once by
\* each enqueue that returns True and a registered dequeue callback once by
\* each dequeue that returns an item, with that item; a refused enqueue and
\* a dequeue on the empty queue invoke nothing; when the callback runs the
\* operation's change of content and of statistics are both made.
C15_CallbackAfterUpdate ==
  self.kind = "fifo" =>
    /\ \A item \in Items :
         LET r == Queue_enqueue(self, now, item, Len(admits) + 1)
         IN  IF r.ret /\ self.on_enqueue
             THEN /\ InvokedOnce(r.calls, "on_enqueue", item, r.self)
                  /\ Len(r.self.entries) = Len(self.entries) + 1
                  /\ r.self.stats.entries = self.stats.entries + 1
             ELSE r.calls = << >>
    /\ LET r == Queue_dequeue(self, now)
       IN  IF Len(self.entries) > 0 /\ self.on_dequeue
           THEN /\ InvokedOnce(r.calls, "on_dequeue", r.ret, r.self)
                /\ r.ret = self.entries[1].item
                /\ Len(r.self.entries) = Len(self.entries) - 1
                /\ r.self.stats.exits = self.stats.exits + 1
           ELSE r.calls = << >>

\* a full bounded FIFO queue with both callbacks registered, after a
\* departure
C15_Witness ==
  /\ self.kind = "fifo"
  /\ self.on_enqueue /\ self.on_dequeue
  /\ self.capacity > 0
  /\ Len(self.entries) = self.capacity
  /\ self.stats.exits > 0

\* the list h is a binary min-heap by (priority, index): no wrapper is less
\* than its parent (positions from 0, the parent of i is (i - 1) \div 2)
IsHeap(h) ==
  \A i \in 1 .. (Len(h) - 1) :
    ~PriorityItem_lt(h[i + 1], h[((i - 1) \div 2) + 1])

\* C16: in every state of the priority queue reachable by enqueue, dequeue,
\* remove and update_priority the list is a binary min-heap by
\* (priority, sequence number).
C16_HeapInvariant == self.kind = "pq" => IsHeap(self.heap)

\* the call that made q1 of q created one wrapper, with a sequence number
\* above every number issued before (the counter of q)
IssuedNext(q, q1) ==
  /\ q1.counter = q.counter + 1
  /\ \E w \in Range(q1.heap) :
       /\ w.index = q1.counter
       /\ \A v \in Range(q.heap) : v.index # w.index
       /\ \A v \in Range(q1.heap) \ { w } : v \in Range(q.heap)

\* C17: the sequence numbers of a priority queue are issued in strictly
\* increasing order: no two wrappers in the heap share one, none is above
\* the counter, a successful enqueue or update_priority gives its wrapper
\* the counter plus one, and no other call changes the counter.
C17_SequenceNumbers ==
  self.kind = "pq" =>
    /\ \A i, j \in 1 .. Len(self.heap) :
         i # j => self.heap[i].index # self.heap[j].index
    /\ \A w \in Range(self.heap) : 1 <= w.index /\ w.index <= self.counter
    /\ \A item \in Items :
         /\ \A priority \in Priorities \cup { NoPriority } :
              LET r == PriorityQueue_enqueue(self, now, item, priority,
                                             Len(admits) + 1)
              IN  IF r.ret THEN IssuedNext(self, r.self)
                  ELSE r.self.counter = self.counter
         /\ \A new_priority \in Priorities :
              LET r == PriorityQueue_update_priority(self, item, new_priority)
              IN  IF r.ret THEN IssuedNext(self, r.self)
                  ELSE r.self.counter = self.counter
         /\ PriorityQueue_remove(self, now, item).self.counter = self.counter
    /\ PriorityQueue_dequeue(self, now).self.counter = self.counter

\* a full bounded priority queue holding a wrapper that update_priority
\* made, and no wrapper matching some item
C17_Witness ==
  /\ self.kind = "pq"
  /\ self.capacity > 0
  /\ Len(self.heap) = self.capacity
  /\ self.counter > Len(admits)
  /\ \E item \in Items : NotQueued(self, item)

\* C18: peek on either queue assigns nothing (contents, order, sequence
\* counter and statistics stay) and on a non-empty queue returns the very
\* object the dequeue that follows it returns.
C18_PeekReadsHead ==
  /\ [](IF self.kind = "fifo"
        THEN Len(self.entries) > 0 =>
               /\ Queue_peek(self) = Queue_dequeue(self, now).ret
               /\ Queue_peek(self) \in Items
        ELSE Len(self.heap) > 0 =>
               /\ PriorityQueue_peek(self)
                    = PriorityQueue_dequeue(self, now).ret
               /\ PriorityQueue_peek(self) \in Items)
  /\ [][(CallQueue_peek \/ CallPriorityQueue_peek) => self' = self]_vars

\* a queue an item has left, holding different objects at the two ends of
\* its container
C18_Witness ==
  /\ Size(self) >= 2
  /\ self.stats.exits > 0
  /\ Wrappers(self)[1].item # Wrappers(self)[Size(self)].item

\* the queued admissions with the identity of the object their wrappers
\* carry
Objects(q) == { << w.tk, w.item.id >> : w \in Range(q.heap) }

\* C19: a successful update_priority(arg, p) leaves every queued admission
\* with the object it was enqueued with, also when arg is another object
\* equal to the one it matched.
C19_UpdatePriorityKeepsObjects ==
  self.kind = "pq" =>
    \A arg \in Items, new_priority \in Priorities :
      LET r == PriorityQueue_update_priority(self, arg, new_priority)
      IN  r.ret => Objects(r.self) = Objects(self)

\* C20: after reset_stats at a time r > 0 on a FIFO queue holding n > 0
\* items, the next enqueue, dequeue or remove that takes effect, at t >= r,
\* leaves area = n * (t - r), the items held summed over the time since the
\* reset (occ); r > 0 is occ < n * t.
C20_AreaCountsSinceReset ==
  ( /\ self.kind = "fifo"
    /\ resetLen > 0
    /\ self.stats.entries = 0 /\ self.stats.exits = 0
    /\ occ < resetLen * now )
  => /\ Queue_dequeue(self, now).self.stats.area = occ
     /\ \A item \in Items :
          /\ LET r == Queue_enqueue(self, now, item, Len(admits) + 1)
             IN  r.ret => r.self.stats.area = occ
          /\ LET r == Queue_remove(self, now, item)
             IN  r.ret => r.self.stats.area = occ

====
